---- MODULE Spec2Model ----
(***************************************************************************)
(* MovieVault: the state container of the App component (src/src/App.tsx): *)
(* the seven useState slots, the localStorage slot 'movieVaultBookmarks',  *)
(* and the outstanding fetch() promises of fetchTrendingMovies and         *)
(* searchMovies.  Every event handler is one action; React commits the     *)
(* state updates of a handler before the next event is dispatched, so the  *)
(* closures a handler reads are those of the current state.                *)
(***************************************************************************)
EXTENDS Integers, Sequences, FiniteSets, TLC

\* ---- bounds ------------------------------------------------------------
MaxId == 2          \* movie identifiers are 1..MaxId
MaxTextLen == 1     \* longest text typed into the search field
MaxInflight == 2    \* most fetch() promises outstanding at once

IDs == 1..MaxId
Chars == {" ", "a"}
NoMovie == 0        \* selectedMovie === null

\* ---- messages (string literals of App.tsx) -----------------------------
NoError == "null"
MsgApiKey == "API key is missing. Please add your TMDB API key to the .env file."
MsgNoMovies == "No movies found"
MsgFetchFailed == "Failed to fetch movies. Please try again later."
MsgNoSearch == "No movies found for your search"
MsgSearchFailed == "Failed to search movies. Please try again later."
MsgRemoved == "Removed from bookmarks"
MsgAdded == "Added to bookmarks"
NoToast == ""       \* the event raised no notification

VARIABLES
  apiKey,             \* TMDB_API_KEY is truthy
  mounted,            \* the mount effect has run
  movies, loading, searchQuery, bookmarks, selectedMovie, error,
  showBookmarksOnly,  \* the useState slots
  storage,            \* localStorage slot 'movieVaultBookmarks'
  getItemCalls,       \* number of localStorage.getItem calls so far
  inflight,           \* outstanding requests, in issue order
  otherTab,           \* a second tab of the same build on the same storage slot
  last,               \* the event handled last
  latestDone          \* response of the most recently issued request, once it
                      \* has resolved ahead of an older request

vars == <<apiKey, mounted, movies, loading, searchQuery, bookmarks,
          selectedMovie, error, showBookmarksOnly, storage, getItemCalls,
          inflight, otherTab, last, latestDone>>

\* ---- sequences ---------------------------------------------------------
Range(s) == {s[i] : i \in 1..Len(s)}

SeqsUpTo(S, n) == UNION {[1..k -> S] : k \in 0..n}

IsDupFree(s) == \A i, j \in 1..Len(s) : i # j => s[i] # s[j]

RemoveAt(s, i) == SubSeq(s, 1, i - 1) \o SubSeq(s, i + 1, Len(s))

\* Array.prototype.includes
Includes(arr, x) == \E i \in 1..Len(arr) : arr[i] = x

\* ---- String.prototype.trim ---------------------------------------------
RECURSIVE TrimStart(_)
TrimStart(t) ==
  IF t = <<>> THEN <<>>
  ELSE IF Head(t) = " " THEN TrimStart(Tail(t)) ELSE t

RECURSIVE TrimEnd(_)
TrimEnd(t) ==
  IF t = <<>> THEN <<>>
  ELSE IF t[Len(t)] = " " THEN TrimEnd(SubSeq(t, 1, Len(t) - 1)) ELSE t

Trim(t) == TrimEnd(TrimStart(t))

\* encodeURIComponent on the characters of Chars
RECURSIVE EncodeURIComponent(_)
EncodeURIComponent(t) ==
  IF t = <<>> THEN <<>>
  ELSE (IF Head(t) = " " THEN <<"%", "2", "0">> ELSE <<Head(t)>>)
       \o EncodeURIComponent(Tail(t))

\* ---- JSON.stringify / JSON.parse on arrays of numbers ------------------
DigitChars == <<"0", "1", "2", "3", "4", "5", "6", "7", "8", "9">>

DigitVal(c) == (CHOOSE k \in 1..10 : DigitChars[k] = c) - 1

RECURSIVE NumberToString(_)
NumberToString(n) ==
  IF n < 10 THEN <<DigitChars[n + 1]>>
  ELSE NumberToString(n \div 10) \o <<DigitChars[(n % 10) + 1]>>

RECURSIVE JoinNumbers(_)
JoinNumbers(arr) ==
  IF arr = <<>> THEN <<>>
  ELSE IF Len(arr) = 1 THEN NumberToString(arr[1])
  ELSE NumberToString(arr[1]) \o <<",">> \o JoinNumbers(Tail(arr))

JSONstringify(arr) == <<"[">> \o JoinNumbers(arr) \o <<"]">>

\* cur = -1: no digit of the next element read yet
RECURSIVE ParseElements(_, _, _)
ParseElements(chars, acc, cur) ==
  IF chars = <<>> THEN acc
  ELSE LET c == Head(chars) IN
    IF c = "]" THEN (IF cur = -1 THEN acc ELSE Append(acc, cur))
    ELSE IF c = "," THEN ParseElements(Tail(chars), Append(acc, cur), -1)
    ELSE ParseElements(Tail(chars), acc,
                       (IF cur = -1 THEN 0 ELSE cur) * 10 + DigitVal(c))

JSONparse(text) == ParseElements(Tail(text), <<>>, -1)

\* ---- domains -----------------------------------------------------------
Texts == SeqsUpTo(Chars, MaxTextLen)

\* the `results` arrays a response can carry: identifiers are unique
ResultLists == {s \in SeqsUpTo(IDs, MaxId) : IsDupFree(s)}

Absent == [present |-> FALSE, text |-> <<>>]

\* the slot at startup: never written, or what an earlier session wrote
InitialStorage ==
  {Absent} \cup
  {[present |-> TRUE, text |-> JSONstringify(b)] : b \in ResultLists}

\* what `await response.json()` and the code after it can run into
NoOutcome == [tag |-> "none", list |-> <<>>]

JsonOutcomes ==
  {[tag |-> "results", list |-> l] : l \in ResultLists}
    \cup {[tag |-> "nofield", list |-> <<>>], [tag |-> "throws", list |-> <<>>]}

HttpFailure == [tag |-> "httpfail", list |-> <<>>]

Outcomes == JsonOutcomes \cup {HttpFailure}

NoLatest == [kind |-> "", out |-> NoOutcome]

\* before: the bookmark array ahead of the first of two successive toggles of
\* one id; overwrote: the array the slot held ahead of a toggle's write;
\* toast: the notification the event raised
NoEvent ==
  [op |-> "init", id |-> 0, text |-> <<>>, kind |-> "", stale |-> FALSE,
   out |-> NoOutcome, n |-> 0, before |-> <<>>, overwrote |-> <<>>,
   toast |-> NoToast]

\* the second tab before its mount effect has run
OtherTabClosed == [mounted |-> FALSE, bookmarks |-> <<>>]

\* ---- initial state: the useState initial values ------------------------
Init ==
  /\ apiKey \in BOOLEAN
  /\ storage \in InitialStorage
  /\ mounted = FALSE
  /\ movies = <<>>
  /\ loading = TRUE
  /\ searchQuery = <<>>
  /\ bookmarks = <<>>
  /\ selectedMovie = NoMovie
  /\ error = NoError
  /\ showBookmarksOnly = FALSE
  /\ getItemCalls = 0
  /\ inflight = <<>>
  /\ otherTab = OtherTabClosed
  /\ last = NoEvent
  /\ latestDone = NoLatest

\* the array the storage slot holds (the empty array when the slot is absent)
StoredArray == IF storage.present THEN JSONparse(storage.text) ELSE <<>>

\* ---- derived view (recomputed on every render) ------------------------
\* a variant that walks the bookmark array instead of the movie array
displayedMoviesByBookmarkOrder ==
  IF showBookmarksOnly
  THEN SelectSeq(bookmarks, LAMBDA id : Includes(movies, id))
  ELSE movies

displayedMovies ==
  IF showBookmarksOnly
  THEN SelectSeq(movies, LAMBDA movie : Includes(bookmarks, movie))
  ELSE movies

\* the grid of cards is the last branch of the loading / error / empty chain
GridVisible ==
  /\ ~loading
  /\ error = NoError
  /\ ~(Len(displayedMovies) = 0 /\ showBookmarksOnly)

BrowseTrendingVisible ==
  /\ ~loading
  /\ error = NoError
  /\ Len(displayedMovies) = 0 /\ showBookmarksOnly

\* ---- requests ----------------------------------------------------------
TrendingRequest == [kind |-> "trending", query |-> <<>>]

\* a variant that builds the URL from the search text of the current render
SearchRequestStaleText(query) ==
  [kind |-> "search", query |-> EncodeURIComponent(searchQuery)]

SearchRequest(query) ==
  [kind |-> "search", query |-> EncodeURIComponent(query)]

CanIssue == Len(inflight) < MaxInflight

Event(op) == [NoEvent EXCEPT !.op = op]

\* a variant of the credential guard of searchMovies that lets the call through
SearchKeyMissingNever == FALSE

SearchKeyMissing == ~apiKey

\* a variant of the blank test that forgets trim()
IsBlankQueryNoTrim(query) == query = <<>>

IsBlankQuery(query) == Trim(query) = <<>>

\* a variant of fetchTrendingMovies without setSearchQuery('')
fetchTrendingMoviesKeepText(text) ==
  IF ~apiKey
  THEN /\ error' = MsgApiKey
       /\ loading' = FALSE
       /\ searchQuery' = text
       /\ UNCHANGED <<showBookmarksOnly, inflight, latestDone>>
  ELSE /\ CanIssue
       /\ error' = NoError
       /\ loading' = TRUE
       /\ showBookmarksOnly' = FALSE
       /\ searchQuery' = text
       /\ inflight' = Append(inflight, TrendingRequest)
       /\ latestDone' = NoLatest

\* fetchTrendingMovies, up to and including the fetch() call; text is the
\* value the search text holds when it is called
fetchTrendingMovies(text) ==
  IF ~apiKey
  THEN /\ error' = MsgApiKey
       /\ loading' = FALSE
       /\ searchQuery' = text
       /\ UNCHANGED <<showBookmarksOnly, inflight, latestDone>>
  ELSE /\ CanIssue
       /\ error' = NoError
       /\ loading' = TRUE
       /\ showBookmarksOnly' = FALSE
       /\ searchQuery' = <<>>
       /\ inflight' = Append(inflight, TrendingRequest)
       /\ latestDone' = NoLatest

\* a variant of searchMovies without setShowBookmarksOnly(false)
searchMoviesKeepFilter(query) ==
  IF SearchKeyMissing
  THEN /\ error' = MsgApiKey
       /\ searchQuery' = query
       /\ UNCHANGED <<loading, showBookmarksOnly, inflight, latestDone>>
  ELSE IF IsBlankQuery(query)
  THEN fetchTrendingMovies(query)
  ELSE /\ CanIssue
       /\ error' = NoError
       /\ loading' = TRUE
       /\ searchQuery' = query
       /\ inflight' = Append(inflight, SearchRequest(query))
       /\ latestDone' = NoLatest
       /\ UNCHANGED showBookmarksOnly

\* searchMovies, up to and including the fetch() call; the onChange handler
\* has set the search text to query just before
searchMovies(query) ==
  IF SearchKeyMissing
  THEN /\ error' = MsgApiKey
       /\ searchQuery' = query
       /\ UNCHANGED <<loading, showBookmarksOnly, inflight, latestDone>>
  ELSE IF IsBlankQuery(query)
  THEN fetchTrendingMovies(query)
  ELSE /\ CanIssue
       /\ error' = NoError
       /\ loading' = TRUE
       /\ showBookmarksOnly' = FALSE
       /\ searchQuery' = query
       /\ inflight' = Append(inflight, SearchRequest(query))
       /\ latestDone' = NoLatest

\* ---- the mount effect --------------------------------------------------
\* a variant of the startup load that never takes over the stored array
LoadedBookmarksIgnored(saved, current) == current

LoadedBookmarks(saved, current) ==
  IF saved.present /\ saved.text # <<>> THEN JSONparse(saved.text) ELSE current

Mount ==
  /\ ~mounted
  /\ mounted' = TRUE
  /\ last' = Event("mount")
  /\ IF ~apiKey
     THEN /\ error' = MsgApiKey
          /\ loading' = FALSE
          /\ UNCHANGED <<searchQuery, showBookmarksOnly, inflight, latestDone,
                         bookmarks, getItemCalls>>
     ELSE /\ fetchTrendingMovies(searchQuery)
          /\ getItemCalls' = getItemCalls + 1
          /\ bookmarks' = LoadedBookmarks(storage, bookmarks)
  /\ UNCHANGED <<apiKey, otherTab, movies, selectedMovie, storage>>

\* ---- header ------------------------------------------------------------
HomeClick ==
  /\ mounted
  /\ fetchTrendingMovies(searchQuery)
  /\ last' = Event("home")
  /\ UNCHANGED <<apiKey, otherTab, mounted, movies, bookmarks, selectedMovie, storage,
                 getItemCalls>>

BrowseTrendingClick ==
  /\ mounted
  /\ BrowseTrendingVisible
  /\ fetchTrendingMovies(searchQuery)
  /\ last' = Event("browse")
  /\ UNCHANGED <<apiKey, otherTab, mounted, movies, bookmarks, selectedMovie, storage,
                 getItemCalls>>

BookmarksOnlyClick ==
  /\ mounted
  /\ showBookmarksOnly' = ~showBookmarksOnly
  /\ last' = Event("filter")
  /\ UNCHANGED <<apiKey, otherTab, mounted, movies, loading, searchQuery, bookmarks,
                 selectedMovie, error, storage, getItemCalls, inflight,
                 latestDone>>

\* onChange of the search field: fires when the field's value changes
SearchChange(text) ==
  /\ mounted
  /\ text # searchQuery
  /\ searchMovies(text)
  /\ last' = [Event("change") EXCEPT !.text = text]
  /\ UNCHANGED <<apiKey, otherTab, mounted, movies, bookmarks, selectedMovie, storage,
                 getItemCalls>>

\* ---- bookmarks ---------------------------------------------------------
\* a variant of the toggle that appends whether or not the id is present
NewBookmarksAlwaysAdd(current, movieId) == Append(current, movieId)

\* a variant of the toggle whose membership test looks at the last element only
NewBookmarksChecksLastOnly(current, movieId) ==
  IF current # <<>> /\ current[Len(current)] = movieId
  THEN SelectSeq(current, LAMBDA id : id # movieId)
  ELSE Append(current, movieId)

\* newBookmarks of toggleBookmark
NewBookmarks(current, movieId) ==
  IF Includes(current, movieId)
  THEN SelectSeq(current, LAMBDA id : id # movieId)
  ELSE Append(current, movieId)

\* a variant of the write that serializes the array of the current render
ToggleStoredStale(current, movieId) ==
  [present |-> TRUE, text |-> JSONstringify(current)]

\* a variant of the write that toggles the id in the array the slot holds
ToggleStoredMerged(current, movieId) ==
  [present |-> TRUE, text |-> JSONstringify(NewBookmarks(StoredArray, movieId))]

\* localStorage.setItem('movieVaultBookmarks', JSON.stringify(newBookmarks))
ToggleStored(current, movieId) ==
  [present |-> TRUE, text |-> JSONstringify(NewBookmarks(current, movieId))]

\* the ids whose bookmark button is on screen: the cards of the grid and the
\* detail overlay
Toggleable ==
  (IF GridVisible THEN Range(displayedMovies) ELSE {})
    \cup (IF selectedMovie # NoMovie THEN {selectedMovie} ELSE {})

\* a variant of the notification that tests the array after the toggle
ToggleToastAfter(current, movieId) ==
  IF Includes(NewBookmarks(current, movieId), movieId) THEN MsgRemoved
  ELSE MsgAdded

\* toast.success(bookmarks.includes(movieId) ? ... : ...)
ToggleToast(current, movieId) ==
  IF Includes(current, movieId) THEN MsgRemoved ELSE MsgAdded

toggleBookmark(movieId) ==
  /\ mounted
  /\ movieId \in Toggleable
  /\ bookmarks' = NewBookmarks(bookmarks, movieId)
  /\ storage' = ToggleStored(bookmarks, movieId)
  /\ last' = [Event("toggle") EXCEPT
                !.id = movieId,
                !.n = IF last.op = "toggle" /\ last.id = movieId /\ last.n = 1
                      THEN 2 ELSE 1,
                !.before = IF last.op = "toggle" /\ last.id = movieId
                              /\ last.n = 1
                           THEN last.before ELSE bookmarks,
                !.overwrote = StoredArray,
                !.toast = ToggleToast(bookmarks, movieId)]
  /\ UNCHANGED <<apiKey, otherTab, mounted, movies, loading, searchQuery, selectedMovie,
                 error, showBookmarksOnly, getItemCalls, inflight, latestDone>>

\* ---- detail overlay ----------------------------------------------------
\* a variant of the info button that shows the spinner to fetch details
SelectMovieFetchesDetail(movieId) ==
  /\ mounted
  /\ GridVisible
  /\ movieId \in Range(displayedMovies)
  /\ selectedMovie' = movieId
  /\ loading' = TRUE
  /\ last' = [Event("select") EXCEPT !.id = movieId]
  /\ UNCHANGED <<apiKey, otherTab, mounted, movies, searchQuery, bookmarks,
                 error, showBookmarksOnly, storage, getItemCalls, inflight,
                 latestDone>>

SelectMovie(movieId) ==
  /\ mounted
  /\ GridVisible
  /\ movieId \in Range(displayedMovies)
  /\ selectedMovie' = movieId
  /\ last' = [Event("select") EXCEPT !.id = movieId]
  /\ UNCHANGED <<apiKey, otherTab, mounted, movies, loading, searchQuery, bookmarks,
                 error, showBookmarksOnly, storage, getItemCalls, inflight,
                 latestDone>>

CloseDetail ==
  /\ mounted
  /\ selectedMovie # NoMovie
  /\ selectedMovie' = NoMovie
  /\ last' = Event("close")
  /\ UNCHANGED <<apiKey, otherTab, mounted, movies, loading, searchQuery, bookmarks,
                 error, showBookmarksOnly, storage, getItemCalls, inflight,
                 latestDone>>

\* ---- request resolution ------------------------------------------------
FailMsg(kind) == IF kind = "trending" THEN MsgFetchFailed ELSE MsgSearchFailed

\* the request at position i is not the most recently issued one
IsStale(i) == latestDone # NoLatest \/ i < Len(inflight)

\* a variant that drops the response of a request that is not the latest issued
AppliedMoviesLatestOnly(results, stale) == IF stale THEN movies ELSE results

\* setMovies(data.results)
AppliedMovies(results, stale) == results

\* a variant of the search branch that forgets the zero-length test
ResultsErrorNoEmptyTest(kind, results) == error

\* the error slot after `if (data.results) { ... }`
ResultsError(kind, results) ==
  IF kind = "search" /\ Len(results) = 0 THEN MsgNoSearch ELSE error

\* toast.error of the catch block
CatchToast(kind, out) ==
  IF out.tag \in {"httpfail", "throws"} THEN FailMsg(kind) ELSE NoToast

\* a variant with setLoading(false) at the end of the try block, not in finally
LoadingAfterResolveTryOnly(out) ==
  IF out.tag \in {"httpfail", "throws"} THEN loading ELSE FALSE

\* setLoading(false) of the finally block
LoadingAfterResolve(out) == FALSE

\* the catch block
Catch(kind) ==
  /\ error' = FailMsg(kind)
  /\ movies' = <<>>

\* The promise chain of the request at position i runs from `await fetch` to
\* the end of its finally block.  out tells how far the try block gets:
\*   "httpfail"  fetch rejects or response.ok is false (throw at 56-58, 96-98)
\*   "throws"    response.json() rejects
\*   "nofield"   the body has no `results`
\*   "results"   the body has the array out.list
\* The continuation between the two awaits reads and writes no state, so the
\* chain is one step.
Resolve(i, out) ==
  LET r == inflight[i] IN
  /\ i \in 1..Len(inflight)
  /\ CASE out.tag = "results" ->
            /\ movies' = AppliedMovies(out.list, IsStale(i))
            /\ error' = ResultsError(r.kind, out.list)
       [] out.tag = "nofield" ->
            /\ movies' = <<>>
            /\ error' = MsgNoMovies
       [] OTHER -> Catch(r.kind)
  /\ loading' = LoadingAfterResolve(out)
  /\ inflight' = RemoveAt(inflight, i)
  /\ last' = [Event("resolve") EXCEPT !.kind = r.kind, !.stale = IsStale(i),
                                      !.out = out, !.toast = CatchToast(r.kind, out)]
  /\ latestDone' = IF IsStale(i) THEN latestDone
                   ELSE IF Len(inflight) > 1 THEN [kind |-> r.kind, out |-> out]
                   ELSE NoLatest
  /\ UNCHANGED <<apiKey, otherTab, mounted, searchQuery, bookmarks, selectedMovie,
                 showBookmarksOnly, storage, getItemCalls>>

\* ---- a second tab on the same storage slot -----------------------------
\* its mount effect: the same build, so the same credential
OtherTabMount ==
  /\ ~otherTab.mounted
  /\ otherTab' = [mounted |-> TRUE,
                  bookmarks |-> IF apiKey
                                THEN LoadedBookmarks(storage, otherTab.bookmarks)
                                ELSE otherTab.bookmarks]
  /\ last' = Event("otherMount")
  /\ UNCHANGED <<apiKey, mounted, movies, loading, searchQuery, bookmarks,
                 selectedMovie, error, showBookmarksOnly, storage, getItemCalls,
                 inflight, latestDone>>

\* its toggleBookmark, on a card of whatever list it shows: only a tab with
\* the credential ever shows one
OtherTabToggle(movieId) ==
  /\ otherTab.mounted
  /\ apiKey
  /\ otherTab' = [otherTab EXCEPT
                    !.bookmarks = NewBookmarks(otherTab.bookmarks, movieId)]
  /\ storage' = ToggleStored(otherTab.bookmarks, movieId)
  /\ last' = [Event("otherToggle") EXCEPT !.id = movieId]
  /\ UNCHANGED <<apiKey, mounted, movies, loading, searchQuery, bookmarks,
                 selectedMovie, error, showBookmarksOnly, getItemCalls,
                 inflight, latestDone>>

\* ---- specification -----------------------------------------------------
Next ==
  \/ Mount
  \/ HomeClick
  \/ BrowseTrendingClick
  \/ BookmarksOnlyClick
  \/ \E text \in Texts : SearchChange(text)
  \/ \E movieId \in IDs : toggleBookmark(movieId)
  \/ \E movieId \in IDs : SelectMovie(movieId)
  \/ CloseDetail
  \/ \E i \in 1..MaxInflight, out \in Outcomes : Resolve(i, out)

Spec == Init /\ [][Next]_vars

\* two tabs
NextTabs ==
  \/ Next
  \/ OtherTabMount
  \/ \E movieId \in IDs : OtherTabToggle(movieId)

SpecTabs == Init /\ [][NextTabs]_vars

\* the effect runs after the first render and every fetch() settles
FairSpec ==
  /\ Spec
  /\ WF_vars(Mount)
  /\ WF_vars(\E i \in 1..MaxInflight, out \in Outcomes : Resolve(i, out))

\* ---- properties --------------------------------------------------------
\* the list a response leaves in `movies`
ListOf(out) == IF out.tag = "results" THEN out.list ELSE <<>>

\* the texts made of whitespace only
BlankTexts == {t \in Texts : \A i \in 1..Len(t) : t[i] = " "}

\* C1: immediately after every bookmark toggle the storage slot is present
\* and its deserialized content equals the in-memory bookmark array.
C1_StorageMirrorsBookmarks ==
  last.op = "toggle" => (storage.present /\ JSONparse(storage.text) = bookmarks)

C1_Witness == last.op = "toggle" /\ Len(bookmarks) = 2

\* C2: after toggling the same identifier twice in succession the bookmark
\* array has the members it had before the first of the two toggles.
C2_ToggleTwiceSameMembers ==
  (last.op = "toggle" /\ last.n = 2) => Range(bookmarks) = Range(last.before)

C2_Witness ==
  /\ last.op = "toggle" /\ last.n = 2
  /\ Len(last.before) = 2
  /\ bookmarks # last.before

\* C3: when the most recently issued request resolved ahead of an older one
\* and the older one has resolved too, with nothing left outstanding, the
\* fetched list is the response of the older request, the one that resolved
\* last.
C3_LastResolvedWins ==
  (/\ last.op = "resolve" /\ last.stale
   /\ latestDone # NoLatest
   /\ inflight = <<>>)
  => movies = ListOf(last.out)

C3_Witness ==
  /\ last.op = "resolve" /\ last.stale /\ last.kind = "search"
  /\ latestDone.kind = "search"
  /\ inflight = <<>>
  /\ last.out.tag = "results" /\ latestDone.out.tag = "results"
  /\ Len(last.out.list) = 2
  /\ Len(latestDone.out.list) = 1
  /\ displayedMovies = last.out.list

\* C4: without the credential no request is ever outstanding, and in every
\* state after the mount the error slot holds the missing-key message and the
\* loading flag is false.
C4_NoKeyNoRequest ==
  ~apiKey => /\ inflight = <<>>
             /\ mounted => (error = MsgApiKey /\ ~loading)

C4_Witness ==
  /\ ~apiKey /\ mounted
  /\ last.op = "change" /\ last.text = <<"a">>
  /\ searchQuery = <<"a">>

\* the positions of `movies` whose identifier is bookmarked
KeptPositions == {k \in 1..Len(movies) : movies[k] \in Range(bookmarks)}

\* the i-th smallest kept position
KeptPosition(i) ==
  CHOOSE k \in KeptPositions : Cardinality({j \in KeptPositions : j <= k}) = i

\* C5: with the bookmarks-only flag set the displayed list is the subsequence
\* of the fetched list at the positions whose identifier is bookmarked, in
\* fetch order; with the flag clear it is the fetched list.
C5_DisplayedIsFilteredInOrder ==
  IF showBookmarksOnly
  THEN /\ Len(displayedMovies) = Cardinality(KeptPositions)
       /\ \A i \in 1..Len(displayedMovies) :
            displayedMovies[i] = movies[KeptPosition(i)]
  ELSE displayedMovies = movies

C5_Witness ==
  /\ showBookmarksOnly
  /\ Len(movies) = 2 /\ Len(bookmarks) = 2
  /\ bookmarks[1] = movies[2] /\ bookmarks[2] = movies[1]

\* C6: while a request is outstanding the loading flag is true.
C6_LoadingWhileOutstanding == inflight # <<>> => loading

\* C7: while the error slot holds a transport failure message the fetched
\* list is empty.
C7_FailureMeansEmptyList ==
  error \in {MsgFetchFailed, MsgSearchFailed} => movies = <<>>

\* C8 as stated: after the mount the bookmark array equals the content of the
\* storage slot, and the slot has been read at most once.
C8_BookmarksLoadedAtMount ==
  /\ mounted => bookmarks = StoredArray
  /\ getItemCalls <= 1

\* C8, amended: with the credential present, after the mount the bookmark
\* array equals the content of the storage slot (the empty array when the
\* slot is absent) and the slot has been read exactly once, by the mount;
\* without the credential the slot is never read.
C8_BookmarksLoadedAtMountWithKey ==
  /\ (mounted /\ apiKey) => (bookmarks = StoredArray /\ getItemCalls = 1)
  /\ (~mounted \/ ~apiKey) => getItemCalls = 0

C8_Witness ==
  /\ apiKey /\ last.op = "mount"
  /\ Len(bookmarks) = 2
  /\ getItemCalls = 1

C10_EmptySearchSetsNoResults ==
  (/\ last.op = "resolve" /\ last.kind = "search"
   /\ last.out.tag = "results" /\ last.out.list = <<>>)
  => /\ error = MsgNoSearch
     /\ MsgNoSearch \notin {MsgSearchFailed, MsgFetchFailed}
     /\ movies = <<>>

C10_Witness ==
  /\ last.op = "resolve" /\ last.kind = "search"
  /\ last.out.tag = "results" /\ last.out.list = <<>>
  /\ ~loading

\* C11: whenever a request of either kind resolves to an empty list (an empty
\* `results` array, or a body without `results`) the error slot holds a
\* 'no results' message.
C11_EmptyListSignalsNoResults ==
  (/\ last.op = "resolve"
   /\ last.out.tag \in {"results", "nofield"}
   /\ ListOf(last.out) = <<>>)
  => error \in {MsgNoMovies, MsgNoSearch}

\* C12 as stated: from any state the home button resets the search text to
\* empty, clears the bookmarks-only flag and issues one trending request.
C12_HomeResetsAndRefetches ==
  [][last'.op = "home"
       => /\ searchQuery' = <<>>
          /\ ~showBookmarksOnly'
          /\ inflight' = Append(inflight, TrendingRequest)]_vars

\* C12, amended: with the credential the home button, from any state, resets
\* the search text to empty, clears the bookmarks-only flag and issues one
\* trending request; without the credential it issues nothing and leaves the
\* search text and the flag as they are, setting the missing-key error.
C12_HomeResetsAndRefetchesWithKey ==
  [][last'.op = "home"
       => IF apiKey
          THEN /\ searchQuery' = <<>>
               /\ ~showBookmarksOnly'
               /\ inflight' = Append(inflight, TrendingRequest)
          ELSE /\ error' = MsgApiKey
               /\ UNCHANGED <<searchQuery, showBookmarksOnly, inflight>>]_vars

C12_Witness ==
  /\ apiKey
  /\ last.op = "home"
  /\ Len(inflight) = 2
  /\ inflight[1].kind = "search" /\ inflight[2] = TrendingRequest
  /\ searchQuery = <<>> /\ ~showBookmarksOnly

\* C13: with a second tab on the same slot, immediately after a toggle in
\* either tab the slot holds exactly the array that tab computed from its own
\* in-memory bookmark array, whatever the slot held before the write.
C13_LastWriterWins ==
  /\ last.op = "toggle" => (storage.present /\ StoredArray = bookmarks)
  /\ last.op = "otherToggle"
       => (storage.present /\ StoredArray = otherTab.bookmarks)

\* the other tab had written a bookmark this tab never loaded; this tab's
\* toggle replaced the slot and that bookmark is gone from it
C13_Witness ==
  /\ last.op = "toggle"
  /\ otherTab.mounted
  /\ last.overwrote # last.before
  /\ \E id \in Range(last.overwrote) :
        /\ id # last.id
        /\ id \in Range(otherTab.bookmarks)
        /\ id \notin Range(StoredArray)

\* C14: a bookmark toggle, a click on the bookmarks-only button, opening and
\* closing the detail overlay leave the loading flag, the error slot and the
\* fetched list unchanged and issue no request; those three change only in
\* the mount effect, a trending action, a search text change or a request
\* resolution.
C14_ViewStateFrame ==
  [][/\ last'.op \in {"toggle", "filter", "select", "close"}
          => UNCHANGED <<loading, error, movies, inflight>>
     /\ <<loading, error, movies>>' # <<loading, error, movies>>
          => last'.op \in {"mount", "home", "browse", "change", "resolve"}]_vars

C14_Witness ==
  /\ last.op = "toggle"
  /\ selectedMovie = last.id
  /\ loading /\ inflight # <<>>
  /\ movies # <<>>

\* C15 as stated: every search text change to a non-blank text appends
\* exactly one search request carrying that text to the outstanding requests.
C15_EveryChangeIssuesSearch ==
  [][(last'.op = "change" /\ last'.text \notin BlankTexts)
       => inflight' = Append(inflight,
                             [kind |-> "search",
                              query |-> EncodeURIComponent(last'.text)])]_vars

\* C15, amended: with the credential, every search text change to a
\* non-blank text appends exactly one search request carrying that text, the
\* requests outstanding before stay outstanding, and a request that is no
\* longer the latest issued still has its response applied when it resolves;
\* without the credential the change issues nothing.
C15_EveryChangeIssuesSearchWithKey ==
  [][/\ (last'.op = "change" /\ last'.text \notin BlankTexts)
          => IF apiKey
             THEN /\ searchQuery' = last'.text
                  /\ inflight' =
                       Append(inflight,
                              [kind |-> "search",
                               query |-> EncodeURIComponent(searchQuery')])
             ELSE inflight' = inflight
     /\ (last'.op = "resolve" /\ last'.stale)
          => /\ movies' = ListOf(last'.out)
             /\ Len(inflight') = Len(inflight) - 1]_vars

C15_Witness ==
  /\ apiKey
  /\ last.op = "change" /\ last.text = <<"a">>
  /\ Len(inflight) = 2
  /\ inflight[1] = TrendingRequest
  /\ inflight[2] = [kind |-> "search", query |-> <<"a">>]
  /\ loading

\* C16: starting from a stored array without duplicates, no sequence of
\* toggles puts an identifier into the bookmark array more than once.
C16_BookmarksDupFree == IsDupFree(bookmarks)

\* an id removed and added again, next to another bookmark
C16_Witness ==
  /\ last.op = "toggle" /\ last.n = 2
  /\ Includes(bookmarks, last.id)
  /\ Len(bookmarks) = 2
  /\ bookmarks[2] = last.id

\* C17: the notification of a bookmark toggle is 'Removed from bookmarks'
\* exactly when the id was in the bookmark array before the toggle, and
\* 'Added to bookmarks' exactly when it was not.
C17_ToastFromPreToggleMembership ==
  [][last'.op = "toggle"
       => /\ last'.toast = MsgRemoved <=> last'.id \in Range(bookmarks)
          /\ last'.toast = MsgAdded <=> last'.id \notin Range(bookmarks)]_vars

C17_Witness ==
  /\ last.op = "toggle"
  /\ last.toast = MsgRemoved
  /\ last.id \notin Range(bookmarks)
  /\ bookmarks # <<>>

\* the step is the mount effect or a request resolution, not user input
NoUserInput == last'.op \in {"mount", "resolve"}

\* the three outcomes of the render chain once the spinner is gone
ViewSuccess == ~loading /\ error = NoError /\ movies # <<>>

ViewEmpty == ~loading /\ error = NoError /\ movies = <<>>

ViewError == ~loading /\ error # NoError

\* C18: every request resolution, whatever its outcome, clears the loading
\* flag; and with the credential, when the mount effect runs, every request
\* resolves and user input stops from some point on, the view ends up, and
\* stays, with nothing outstanding in one of the non-loading states success,
\* empty or error.
C18_SettlesNonLoading ==
  /\ [][last'.op = "resolve" => ~loading']_vars
  /\ (<>[][NoUserInput]_vars)
       => <>[](apiKey => /\ mounted /\ inflight = <<>>
                         /\ (ViewSuccess \/ ViewEmpty \/ ViewError))

C18_Witness ==
  /\ apiKey
  /\ last.op = "resolve" /\ last.out.tag = "throws"
  /\ inflight = <<>>
  /\ ViewError

\* C19: once nothing is outstanding, the error slot is the one the response
\* that resolved last calls for: null after a non-empty list, the search's
\* 'no results' message after an empty search result, the transport failure
\* message of its kind after a failure.
C19_ErrorMatchesLastResolved ==
  (last.op = "resolve" /\ inflight = <<>>)
  => /\ (last.out.tag = "results" /\ last.out.list # <<>>) => error = NoError
     /\ (last.out.tag = "results" /\ last.out.list = <<>>
           /\ last.kind = "search") => error = MsgNoSearch
     /\ last.out.tag \in {"httpfail", "throws"} => error = FailMsg(last.kind)

\* the step issues a search request
IssuesSearch ==
  /\ Len(inflight') = Len(inflight) + 1
  /\ inflight'[Len(inflight')].kind = "search"

\* C20: a step that issues a search request clears the bookmarks-only flag
\* and the error slot and leaves the bookmark array, the storage slot and the
\* selected item unchanged; the search text stays the text of the change (it
\* is not reset, as the trending fetch resets it).
C20_SearchIssueFrame ==
  [][IssuesSearch
       => /\ last'.op = "change"
          /\ ~showBookmarksOnly'
          /\ error' = NoError
          /\ searchQuery' = last'.text
          /\ UNCHANGED <<bookmarks, storage, selectedMovie>>]_vars

C20_Witness ==
  /\ last.op = "change" /\ last.text = <<"a">>
  /\ Len(inflight) = 1 /\ inflight[1].kind = "search"
  /\ searchQuery = <<"a">>
  /\ ~showBookmarksOnly /\ error = NoError
  /\ selectedMovie # NoMovie
  /\ bookmarks # <<>> /\ StoredArray = bookmarks

====
